---- MODULE Spec2Model ----
(***************************************************************************)
(* The inventory dashboard script src/main.py as a state machine.          *)
(*                                                                         *)
(* One render pass is one top-to-bottom execution of the script in a fresh *)
(* namespace; session_state survives from pass to pass.  The pass is cut   *)
(* into one action per block of the script, in script order, and pc is the *)
(* position of the interpreter.  A pass ends in "done" (last line reached),*)
(* "error" (an uncaught exception), or "switched" (st.switch_page stopped  *)
(* the script and handed over to another page).                            *)
(*                                                                         *)
(* Page config, CSS and the offline-mode indicator (lines 8-64 except the  *)
(* download button) emit nothing the properties below speak about and are  *)
(* not logged.  Percentages are kept as exact fractions num/den.           *)
(***************************************************************************)
EXTENDS Integers, Sequences, FiniteSets, TLC

VARIABLES
    session_state,      \* st.session_state: a mapping, keys data_manager / show_export
    constructed,        \* number of DataManager() constructions in this session
    pc,                 \* position of the interpreter in the script
    click,              \* the button whose click triggered this pass ("none": plain load)
    widgets,            \* buttons rendered so far by the current pass
    bound,              \* function names bound in the script namespace of this pass
    analytics,          \* the mapping bound to the name analytics (line 88)
    calls,              \* calls of get_analytics_data in this pass
    used_handle,        \* the data_manager handle the call was made on (0: none)
    out,                \* elements emitted to the page by this pass, in order
    row,                \* index of the low_stock row the alerts loop is at
    remaining_percent,  \* line 198, as a fraction [num, den]
    returned,           \* value returned by the last completed get_stock_status call
    error               \* exception that ended the pass, or "none"

vars == <<session_state, constructed, pc, click, widgets, bound, analytics, calls,
          used_handle, out, row, remaining_percent, returned, error>>

----------------------------------------------------------------------------
(* Bounds and input sets *)

MaxRows == 2            \* longest low_stock table
LowNum == 10            \* classifier inputs: numerators -LowNum..MaxNum
MaxNum == 120
MaxDen == 2             \* classifier inputs: denominators 1..MaxDen

ScalarKeys == {"total_products", "total_sales", "total_revenue", "out_of_stock"}
TableKeys == {"daily_sales", "category_stats", "recent_sales", "low_stock"}
Keys == ScalarKeys \cup TableKeys

ScalarVals == {7}
StockPairs == {<<5, 20>>, <<10, 20>>, <<5, 0>>}

NoPercent == [num |-> 0, den |-> 0]

SeqsUpTo(S, n) == UNION {[1..k -> S] : k \in 0..n}

DailySalesRows == {[sale_date |-> "2024-01-01", quantity |-> 3]}
CategoryRows == {[category |-> "Tools", total_amount |-> 12]}
RecentSalesRows == {[sale_code |-> "S1", quantity |-> 2, name |-> "Bolt", total_amount |-> 8]}
LowStockRows == {[name |-> "Bolt", category |-> "Tools", stock |-> p[1],
                  min_stock_level |-> p[2]] : p \in StockPairs}

Restrict(f, S) == [k \in S |-> f[k]]

\* What get_analytics_data() may return: a mapping over any subset of the keys.
Snapshots ==
    {Restrict(r, S) :
        r \in [total_products : ScalarVals, total_sales : ScalarVals,
               total_revenue : ScalarVals, out_of_stock : ScalarVals,
               daily_sales : SeqsUpTo(DailySalesRows, 1),
               category_stats : SeqsUpTo(CategoryRows, 1),
               recent_sales : SeqsUpTo(RecentSalesRows, 1),
               low_stock : SeqsUpTo(LowStockRows, MaxRows)],
        S \in SUBSET Keys}

Percents == {[num |-> n, den |-> d] : n \in (0 - LowNum)..MaxNum, d \in 1..MaxDen}

----------------------------------------------------------------------------
(* Pure helpers *)

\* dict.get(key, default)
Get(m, k, d) == IF k \in DOMAIN m THEN m[k] ELSE d

\* DataFrame.empty
Empty(t) == Len(t) = 0

\* f"${x:,.2f}" for a whole amount below 1000
FormatMoney(x) == "$" \o ToString(x) \o ".00"

\* The threshold test written with <= instead of <.
get_stock_status_Inclusive(percent) ==
    IF percent.num <= 50 * percent.den THEN "Low" ELSE "Warning"

\* def get_stock_status(percent): "Low" if percent < 50 else "Warning"
get_stock_status(percent) ==
    IF percent.num < 50 * percent.den THEN "Low" ELSE "Warning"

\* (product['stock'] / product['min_stock_level']) * 100, min_stock_level # 0
RemainingPercent(product) ==
    [num |-> product.stock * 100, den |-> product.min_stock_level]

Item(sec, kind, label, text) ==
    [sec |-> sec, kind |-> kind, label |-> label, text |-> text]

SaleText(sale) ==
    ToString(sale.quantity) \o " x " \o sale.name \o " (" \o
    FormatMoney(sale.total_amount) \o ")"

AlertText(product, status) ==
    "Stock: " \o ToString(product.stock) \o " units (" \o status \o ")"

SaleEntries(t) ==
    [i \in 1..Len(t) |-> Item("Recent Sales", "success", t[i].sale_code, SaleText(t[i]))]

PassEnded == pc \in {"done", "error", "switched", "rerun"}

----------------------------------------------------------------------------
(* The script *)

Init ==
    /\ session_state = <<>>
    /\ constructed = 0
    /\ pc = "idle"
    /\ click = "none"
    /\ widgets = {}
    /\ bound = {}
    /\ analytics = <<>>
    /\ calls = 0
    /\ used_handle = 0
    /\ out = <<>>
    /\ row = 0
    /\ remaining_percent = NoPercent
    /\ returned = "none"
    /\ error = "none"

\* Lines 1-64: a new pass starts in a fresh namespace; the download button.
StartPass ==
    /\ pc = "idle" \/ PassEnded
    /\ \E c \in {"none"} \cup widgets :
        /\ click' = c
        /\ IF c = "Download Mobile App"
              THEN pc' = "switched" /\ widgets' = {}
              ELSE pc' = "session" /\ widgets' = {"Download Mobile App"}
    /\ bound' = {}
    /\ analytics' = <<>>
    /\ calls' = 0
    /\ used_handle' = 0
    /\ out' = <<>>
    /\ row' = 0
    /\ remaining_percent' = NoPercent
    /\ returned' = "none"
    /\ error' = "none"
    /\ UNCHANGED <<session_state, constructed>>

\* The membership test dropped: every pass constructs a DataManager.
InitSession_Always ==
    /\ pc = "session"
    /\ constructed' = constructed + 1
    /\ session_state' =
         [k \in DOMAIN session_state \cup {"data_manager"} |->
             IF k = "data_manager" THEN constructed + 1 ELSE session_state[k]]
    /\ pc' = "nav"
    /\ UNCHANGED <<click, widgets, bound, analytics, calls, used_handle, out, row,
                   remaining_percent, returned, error>>

\* Lines 66-68: if 'data_manager' not in st.session_state: ... = DataManager()
InitSession ==
    /\ pc = "session"
    /\ IF "data_manager" \notin DOMAIN session_state
          THEN /\ constructed' = constructed + 1
               /\ session_state' =
                    [k \in DOMAIN session_state \cup {"data_manager"} |->
                        IF k = "data_manager" THEN constructed + 1 ELSE session_state[k]]
          ELSE UNCHANGED <<session_state, constructed>>
    /\ pc' = "nav"
    /\ UNCHANGED <<click, widgets, bound, analytics, calls, used_handle, out, row,
                   remaining_percent, returned, error>>

NavButtons == {"Add New Product", "Record Sale", "Detailed Analytics"}

\* Lines 70-82: the quick-action buttons; a clicked one switches page.
SidebarNav ==
    /\ pc = "nav"
    /\ IF click \in NavButtons
          THEN pc' = "switched" /\ widgets' = {}
          ELSE pc' = "fetch" /\ widgets' = widgets \cup NavButtons
    /\ UNCHANGED <<session_state, constructed, click, bound, analytics, calls,
                   used_handle, out, row, remaining_percent, returned, error>>

\* Lines 84-88: analytics = st.session_state.data_manager.get_analytics_data()
GetAnalytics ==
    /\ pc = "fetch"
    /\ \E snap \in Snapshots : analytics' = snap
    /\ calls' = calls + 1
    /\ used_handle' = session_state["data_manager"]
    /\ pc' = "metrics"
    /\ UNCHANGED <<session_state, constructed, click, widgets, bound, out, row,
                   remaining_percent, returned, error>>

\* analytics.get('total_products') without its default: an absent key shows None.
KeyMetrics_NoDefault ==
    /\ pc = "metrics"
    /\ out' = out \o
         << Item("Key Metrics", "header", "Key Metrics", ""),
            Item("Key Metrics", "metric", "Total Products",
                 IF "total_products" \in DOMAIN analytics
                    THEN ToString(analytics["total_products"]) ELSE "None"),
            Item("Key Metrics", "metric", "Total Sales",
                 ToString(Get(analytics, "total_sales", 0))),
            Item("Key Metrics", "metric", "Revenue",
                 FormatMoney(Get(analytics, "total_revenue", 0))),
            Item("Key Metrics", "metric", "Out of Stock",
                 ToString(Get(analytics, "out_of_stock", 0))) >>
    /\ pc' = "trend"
    /\ UNCHANGED <<session_state, constructed, click, widgets, bound, analytics, calls,
                   used_handle, row, remaining_percent, returned, error>>

\* Lines 90-134: the four metric cards.
KeyMetrics ==
    /\ pc = "metrics"
    /\ out' = out \o
         << Item("Key Metrics", "header", "Key Metrics", ""),
            Item("Key Metrics", "metric", "Total Products",
                 ToString(Get(analytics, "total_products", 0))),
            Item("Key Metrics", "metric", "Total Sales",
                 ToString(Get(analytics, "total_sales", 0))),
            Item("Key Metrics", "metric", "Revenue",
                 FormatMoney(Get(analytics, "total_revenue", 0))),
            Item("Key Metrics", "metric", "Out of Stock",
                 ToString(Get(analytics, "out_of_stock", 0))) >>
    /\ pc' = "trend"
    /\ UNCHANGED <<session_state, constructed, click, widgets, bound, analytics, calls,
                   used_handle, row, remaining_percent, returned, error>>

\* Lines 136-156: the daily sales line chart or its placeholder.
SalesTrend ==
    /\ pc = "trend"
    /\ LET daily_sales == Get(analytics, "daily_sales", <<>>) IN
       out' = out \o
         << Item("Sales Trend", "header", "Sales Trend", ""),
            IF ~Empty(daily_sales)
               THEN Item("Sales Trend", "chart", "Daily Sales Overview",
                         ToString(Len(daily_sales)))
               ELSE Item("Sales Trend", "info", "No sales data available yet", "") >>
    /\ pc' = "category"
    /\ UNCHANGED <<session_state, constructed, click, widgets, bound, analytics, calls,
                   used_handle, row, remaining_percent, returned, error>>

\* Lines 158-177: the category pie chart or its placeholder.
CategoryPerformance ==
    /\ pc = "category"
    /\ LET category_stats == Get(analytics, "category_stats", <<>>) IN
       out' = out \o
         << Item("Category Performance", "header", "Category Performance", ""),
            IF ~Empty(category_stats)
               THEN Item("Category Performance", "chart", "Sales by Category",
                         ToString(Len(category_stats)))
               ELSE Item("Category Performance", "info", "No category data available", "") >>
    /\ pc' = "recent"
    /\ UNCHANGED <<session_state, constructed, click, widgets, bound, analytics, calls,
                   used_handle, row, remaining_percent, returned, error>>

\* The else dropped: the placeholder follows the sale entries as well.
RecentSales_NoElse ==
    /\ pc = "recent"
    /\ LET recent_sales == Get(analytics, "recent_sales", <<>>) IN
       out' = out \o
         << Item("Recent Activity", "header", "Recent Activity", "") >> \o
         (IF ~Empty(recent_sales) THEN SaleEntries(recent_sales) ELSE <<>>) \o
         << Item("Recent Sales", "info", "No recent sales to display", "") >>
    /\ pc' = "alerts"
    /\ UNCHANGED <<session_state, constructed, click, widgets, bound, analytics, calls,
                   used_handle, row, remaining_percent, returned, error>>

\* The tab fetches the analytics again instead of reading the snapshot of line 88.
RecentSales_Refetch ==
    /\ pc = "recent"
    /\ \E snap \in Snapshots : analytics' = snap
    /\ calls' = calls + 1
    /\ LET recent_sales == Get(analytics', "recent_sales", <<>>) IN
       out' = out \o
         << Item("Recent Activity", "header", "Recent Activity", "") >> \o
         (IF ~Empty(recent_sales)
             THEN SaleEntries(recent_sales)
             ELSE << Item("Recent Sales", "info", "No recent sales to display", "") >>)
    /\ pc' = "alerts"
    /\ UNCHANGED <<session_state, constructed, click, widgets, bound, used_handle, row,
                   remaining_percent, returned, error>>

\* Lines 179-192: the panel header, the tabs and the recent-sales tab.
RecentSales ==
    /\ pc = "recent"
    /\ LET recent_sales == Get(analytics, "recent_sales", <<>>) IN
       out' = out \o
         << Item("Recent Activity", "header", "Recent Activity", "") >> \o
         (IF ~Empty(recent_sales)
             THEN SaleEntries(recent_sales)
             ELSE << Item("Recent Sales", "info", "No recent sales to display", "") >>)
    /\ pc' = "alerts"
    /\ UNCHANGED <<session_state, constructed, click, widgets, bound, analytics, calls,
                   used_handle, row, remaining_percent, returned, error>>

\* Lines 194-196, 203-204: the stock-alerts tab: enter the loop or show the placeholder.
StockAlertsTab ==
    /\ pc = "alerts"
    /\ LET low_stock == Get(analytics, "low_stock", <<>>) IN
       IF ~Empty(low_stock)
          THEN /\ row' = 1
               /\ pc' = "alert_row"
               /\ out' = out
          ELSE /\ out' = Append(out, Item("Stock Alerts", "success",
                                 "No stock alerts - Inventory levels are healthy!", ""))
               /\ pc' = "define"
               /\ row' = row
    /\ UNCHANGED <<session_state, constructed, click, widgets, bound, analytics, calls,
                   used_handle, remaining_percent, returned, error>>

\* A zero min_stock_level special-cased to "Low" before the division.
StockAlertRow_ZeroIsLow ==
    /\ pc = "alert_row"
    /\ LET low_stock == Get(analytics, "low_stock", <<>>) IN
       IF row > Len(low_stock)
          THEN /\ pc' = "define"
               /\ UNCHANGED <<out, row, remaining_percent, returned, error>>
          ELSE LET product == low_stock[row] IN
               IF product.min_stock_level = 0
                  THEN /\ out' = Append(out, Item("Stock Alerts", "warning", product.name,
                                                  AlertText(product, "Low")))
                       /\ row' = row + 1
                       /\ pc' = "alert_row"
                       /\ UNCHANGED <<remaining_percent, returned, error>>
                  ELSE /\ remaining_percent' = RemainingPercent(product)
                       /\ error' = "NameError"
                       /\ pc' = "error"
                       /\ UNCHANGED <<out, row, returned>>
    /\ UNCHANGED <<session_state, constructed, click, widgets, bound, analytics, calls,
                   used_handle>>

\* Lines 197-202: one iteration of the alerts loop.  The division comes first
\* (line 198); the name get_stock_status is looked up when the f-string of the
\* warning is evaluated (line 201).
StockAlertRow ==
    /\ pc = "alert_row"
    /\ LET low_stock == Get(analytics, "low_stock", <<>>) IN
       IF row > Len(low_stock)
          THEN /\ pc' = "define"
               /\ UNCHANGED <<out, row, remaining_percent, returned, error>>
          ELSE LET product == low_stock[row] IN
               IF product.min_stock_level = 0
                  THEN /\ error' = "ZeroDivisionError"
                       /\ pc' = "error"
                       /\ UNCHANGED <<out, row, remaining_percent, returned>>
                  ELSE /\ remaining_percent' = RemainingPercent(product)
                       /\ IF "get_stock_status" \notin bound
                             THEN /\ error' = "NameError"
                                  /\ pc' = "error"
                                  /\ UNCHANGED <<out, row, returned>>
                             ELSE /\ returned' = get_stock_status(remaining_percent')
                                  /\ out' = Append(out,
                                        Item("Stock Alerts", "warning", product.name,
                                             AlertText(product, returned')))
                                  /\ row' = row + 1
                                  /\ pc' = "alert_row"
                                  /\ error' = error
    /\ UNCHANGED <<session_state, constructed, click, widgets, bound, analytics, calls,
                   used_handle>>

\* Lines 206-207: the def statement binds the name get_stock_status.
DefineGetStockStatus ==
    /\ pc = "define"
    /\ bound' = bound \cup {"get_stock_status"}
    /\ pc' = "status"
    /\ UNCHANGED <<session_state, constructed, click, widgets, analytics, calls,
                   used_handle, out, row, remaining_percent, returned, error>>

\* Lines 209-212: system status and last-updated captions.
SidebarStatus ==
    /\ pc = "status"
    /\ out' = out \o
         << Item("System Status", "header", "System Status: Online", ""),
            Item("System Status", "caption", "Last Updated", "") >>
    /\ pc' = "mobile"
    /\ UNCHANGED <<session_state, constructed, click, widgets, bound, analytics, calls,
                   used_handle, row, remaining_percent, returned, error>>

\* Lines 214-227: the Mobile Options expander.  A button returns True only in
\* the pass its own click triggered.
MobileOptions ==
    /\ pc = "mobile"
    /\ session_state' =
         IF click = "Export Data (CSV)"
            THEN [k \in DOMAIN session_state \cup {"show_export"} |->
                    IF k = "show_export" THEN TRUE ELSE session_state[k]]
            ELSE session_state
    /\ LET head == << Item("Mobile Options", "header", "Mobile Options", "") >>
           warn == << Item("Mobile Options", "warning", "This will reset all local data", "") >>
           done == << Item("Mobile Options", "success", "Cache cleared!", "") >>
       IN IF click = "Clear Cache"
             THEN /\ widgets' = widgets \cup {"Export Data (CSV)", "Clear Cache",
                                               "Confirm Clear"}
                  /\ IF click = "Confirm Clear"
                        THEN out' = out \o head \o warn \o done /\ pc' = "rerun"
                        ELSE out' = out \o head \o warn /\ pc' = "done"
             ELSE /\ widgets' = widgets \cup {"Export Data (CSV)", "Clear Cache"}
                  /\ out' = out \o head
                  /\ pc' = "done"
    /\ UNCHANGED <<constructed, click, bound, analytics, calls, used_handle, row,
                   remaining_percent, returned, error>>

Next ==
    \/ StartPass
    \/ InitSession
    \/ SidebarNav
    \/ GetAnalytics
    \/ KeyMetrics
    \/ SalesTrend
    \/ CategoryPerformance
    \/ RecentSales
    \/ StockAlertsTab
    \/ StockAlertRow
    \/ DefineGetStockStatus
    \/ SidebarStatus
    \/ MobileOptions

Spec == Init /\ [][Next]_vars

----------------------------------------------------------------------------
(* The classifier on its own: every input of Percents is classified once. *)

InitClassify ==
    /\ session_state = <<>>
    /\ constructed = 0
    /\ pc = "call"
    /\ click = "none"
    /\ widgets = {}
    /\ bound = {"get_stock_status"}
    /\ analytics = <<>>
    /\ calls = 0
    /\ used_handle = 0
    /\ out = <<>>
    /\ row = 0
    /\ remaining_percent \in Percents
    /\ returned = "none"
    /\ error = "none"

CallClassifier ==
    /\ pc = "call"
    /\ returned' = get_stock_status(remaining_percent)
    /\ pc' = "returned"
    /\ UNCHANGED <<session_state, constructed, click, widgets, bound, analytics, calls,
                   used_handle, out, row, remaining_percent, error>>

NextClassify == CallClassifier

SpecClassify == InitClassify /\ [][NextClassify]_vars

----------------------------------------------------------------------------
(* Reading the page *)

Count(sec, kinds) ==
    Len(SelectSeq(out, LAMBDA it : it.sec = sec /\ it.kind \in kinds))

Headers == SelectSeq(out, LAMBDA it : it.kind = "header")
HeaderLabels == [i \in 1..Len(Headers) |-> Headers[i].label]
Alerts == SelectSeq(out, LAMBDA it : it.sec = "Stock Alerts" /\ it.kind = "warning")
Metrics == SelectSeq(out, LAMBDA it : it.kind = "metric")
MetricLabels == [i \in 1..Len(Metrics) |-> Metrics[i].label]

SectionOf(k) ==
    CASE k = "daily_sales" -> "Sales Trend"
      [] k = "category_stats" -> "Category Performance"
      [] k = "recent_sales" -> "Recent Sales"
      [] k = "low_stock" -> "Stock Alerts"

PlaceholderKind(k) == IF k = "low_stock" THEN "success" ELSE "info"

ContentKind(k) ==
    CASE k \in {"daily_sales", "category_stats"} -> "chart"
      [] k = "recent_sales" -> "success"
      [] k = "low_stock" -> "warning"

Placeholders(k) == Count(SectionOf(k), {PlaceholderKind(k)})
Contents(k) == Count(SectionOf(k), {ContentKind(k)})

MetricLabelOf(k) ==
    CASE k = "total_products" -> "Total Products"
      [] k = "total_sales" -> "Total Sales"
      [] k = "total_revenue" -> "Revenue"
      [] k = "out_of_stock" -> "Out of Stock"

ZeroText(k) == IF k = "total_revenue" THEN "$0.00" ELSE "0"

LowStock == Get(analytics, "low_stock", <<>>)
ZeroRows == {i \in 1..Len(LowStock) : LowStock[i].min_stock_level = 0}
Fetched == calls = 1
Ran == Fetched /\ pc \in {"done", "error"}

AllSections ==
    << "Key Metrics", "Sales Trend", "Category Performance", "Recent Activity",
       "System Status: Online", "Mobile Options" >>

----------------------------------------------------------------------------
(* Properties *)

\* C1: get_stock_status returns "Low" exactly for inputs strictly below 50 and
\* "Warning" for every other input (50 itself, above 100), never anything
\* else; negative inputs and 0 are "Low".
C1_ClassifierThreshold ==
    pc = "returned" =>
        /\ returned \in {"Low", "Warning"}
        /\ returned = "Low" <=> remaining_percent.num < 50 * remaining_percent.den
        /\ remaining_percent = [num |-> 50, den |-> 1] => returned = "Warning"
        /\ remaining_percent = [num |-> 101, den |-> 1] => returned = "Warning"
        /\ remaining_percent = [num |-> 99, den |-> 2] => returned = "Low"
        /\ remaining_percent.num <= 0 => returned = "Low"

C1_Witness ==
    /\ pc = "returned"
    /\ remaining_percent = [num |-> 50, den |-> 1]
    /\ returned = "Warning"

\* C2: a pass over a non-empty low_stock table with min_stock_level > 0 in
\* every row emits one alert per row, in row order, labelled "Low" iff
\* 2 * stock < min_stock_level and "Warning" otherwise.
C2_OneAlertPerRow ==
    (Ran /\ ~Empty(LowStock) /\ ZeroRows = {}) =>
        /\ Len(Alerts) = Len(LowStock)
        /\ \A i \in 1..Len(LowStock) :
              /\ i <= Len(Alerts)
              /\ Alerts[i].label = LowStock[i].name
              /\ Alerts[i].text =
                   AlertText(LowStock[i],
                             IF 2 * LowStock[i].stock < LowStock[i].min_stock_level
                                THEN "Low" ELSE "Warning")

\* C3: for each of the four tables, placeholder and content never appear
\* together; a non-empty table shows no placeholder, an empty (or absent) one
\* shows no content, and a pass that ran with the table empty shows exactly
\* one placeholder for it.
C3_PlaceholderOrContent ==
    Fetched =>
        \A k \in TableKeys :
            LET t == Get(analytics, k, <<>>) IN
            /\ ~(Placeholders(k) > 0 /\ Contents(k) > 0)
            /\ Placeholders(k) <= 1
            /\ ~Empty(t) => Placeholders(k) = 0
            /\ Empty(t) => Contents(k) = 0
            /\ (Ran /\ Empty(t)) => Placeholders(k) = 1

C3_Witness ==
    /\ pc = "done"
    /\ "recent_sales" \in DOMAIN analytics
    /\ Empty(analytics["recent_sales"])
    /\ ~Empty(Get(analytics, "daily_sales", <<>>))
    /\ Placeholders("recent_sales") = 1
    /\ Contents("daily_sales") = 1

\* C4: an absent key is no error: once the cards are out, every absent scalar
\* shows as zero (Revenue as "$0.00"); a pass that ran shows, for every absent
\* table, its placeholder and no content; a pass fails only on a low_stock
\* table that is present and non-empty; a pass over the empty mapping runs to
\* its end.
C4_AbsentKeysDefault ==
    /\ (Fetched /\ pc # "metrics") =>
          /\ MetricLabels = << "Total Products", "Total Sales", "Revenue", "Out of Stock" >>
          /\ \A k \in ScalarKeys \ DOMAIN analytics :
                \A i \in 1..Len(Metrics) :
                    Metrics[i].label = MetricLabelOf(k) => Metrics[i].text = ZeroText(k)
    /\ Ran =>
          \A k \in TableKeys \ DOMAIN analytics :
              Placeholders(k) = 1 /\ Contents(k) = 0
    /\ error # "none" => "low_stock" \in DOMAIN analytics /\ ~Empty(analytics["low_stock"])
    /\ (Ran /\ DOMAIN analytics = {}) => pc = "done"

C4_Witness ==
    /\ pc = "done"
    /\ calls = 1
    /\ DOMAIN analytics = {}
    /\ Metrics[1].label = "Total Products"
    /\ Metrics[1].text = "0"

\* C5: every pass that ran (here: over a table with min_stock_level > 0 in
\* every row) has emitted the six sections once each in the fixed order, with
\* exactly the four metric cards.
C5_FixedSectionOrder ==
    (Ran /\ ZeroRows = {}) =>
        /\ HeaderLabels = AllSections
        /\ MetricLabels = << "Total Products", "Total Sales", "Revenue", "Out of Stock" >>

\* C6: a low_stock row with min_stock_level = 0 gets no alert, nor does any
\* row after it; the pass ends in an error; when the loop reaches that row the
\* division raises ZeroDivisionError and the classifier is not called for it.
C6_ZeroMinimumRaises ==
    Fetched =>
        \A i \in ZeroRows :
            /\ Len(Alerts) < i
            /\ PassEnded => pc = "error"
            /\ (pc = "error" /\ row = i) =>
                  /\ error = "ZeroDivisionError"
                  /\ returned = "none"
                  /\ remaining_percent = NoPercent

C6_Witness ==
    /\ pc = "error"
    /\ error = "ZeroDivisionError"
    /\ Len(LowStock) = 2
    /\ row = 1
    /\ ZeroRows = {1}
    /\ Alerts = <<>>

\* C7: when the stock-alerts section fails on a row with min_stock_level = 0,
\* the sections before it are on the page and the sections after it (system
\* status, mobile options) are emitted all the same.
C7_FailureIsLocal ==
    (PassEnded /\ error = "ZeroDivisionError") => HeaderLabels = AllSections

\* C8: a DataManager is constructed only when session_state holds no
\* data_manager; a handle once held is never replaced or removed; at most one
\* is constructed per session; the handle get_analytics_data was called on is
\* the one session_state holds, up to the end of the pass.
C8_State ==
    /\ constructed <= 1
    /\ Fetched =>
          /\ "data_manager" \in DOMAIN session_state
          /\ used_handle = session_state["data_manager"]

C8_Step ==
    /\ constructed' # constructed => "data_manager" \notin DOMAIN session_state
    /\ "data_manager" \in DOMAIN session_state =>
          /\ "data_manager" \in DOMAIN session_state'
          /\ session_state'["data_manager"] = session_state["data_manager"]

\* C8: the state part in every state, the step part on every step.
C8_HandleStable == [](C8_State) /\ [][C8_Step]_vars

C8_Witness ==
    /\ "show_export" \in DOMAIN session_state
    /\ click = "none"
    /\ pc = "done"
    /\ used_handle = 1
    /\ constructed = 1

\* C9: whenever the alerts loop is at a row, the name get_stock_status is
\* bound, and no pass ends in a NameError.
C9_BoundBeforeCall ==
    /\ (pc = "alert_row" /\ row <= Len(LowStock)) => "get_stock_status" \in bound
    /\ error # "NameError"

\* C10 as stated: every pass that ends has called get_analytics_data exactly once.
C10_ExactlyOncePerPass == PassEnded => calls = 1

\* C10 amended: a pass calls get_analytics_data at most once; not at all when a
\* clicked navigation button switches page, exactly once otherwise; the call
\* is made on the ensured handle and before anything is emitted; everything
\* emitted is computed from that snapshot, which the pass never rebinds.
C10_State ==
    /\ calls <= 1
    /\ pc = "switched" => calls = 0 /\ out = <<>>
    /\ pc \in {"done", "error"} => calls = 1
    /\ calls = 0 => out = <<>>
    /\ Fetched => used_handle >= 1
    /\ (Fetched /\ pc # "metrics") =>
          /\ Len(Metrics) = 4
          /\ Metrics[1].text = ToString(Get(analytics, "total_products", 0))
          /\ Metrics[2].text = ToString(Get(analytics, "total_sales", 0))
          /\ Metrics[3].text = FormatMoney(Get(analytics, "total_revenue", 0))
          /\ Metrics[4].text = ToString(Get(analytics, "out_of_stock", 0))
    /\ \A i \in 1..Len(out) :
          /\ out[i].kind = "chart" =>
                \E k \in {"daily_sales", "category_stats"} :
                    /\ out[i].sec = SectionOf(k)
                    /\ out[i].text = ToString(Len(Get(analytics, k, <<>>)))
          /\ (out[i].sec = "Recent Sales" /\ out[i].kind = "success") =>
                \E j \in 1..Len(Get(analytics, "recent_sales", <<>>)) :
                    out[i] = SaleEntries(analytics["recent_sales"])[j]
    /\ Ran => Contents("recent_sales") = Len(Get(analytics, "recent_sales", <<>>))

C10_Step == calls = 1 /\ calls' = 1 => analytics' = analytics

\* C10 amended: the state part in every state, the step part on every step.
C10_OneSnapshotPerPass == [](C10_State) /\ [][C10_Step]_vars

C10_Witness ==
    /\ pc = "done"
    /\ calls = 1
    /\ DOMAIN analytics = Keys
    /\ ~Empty(analytics["daily_sales"])
    /\ ~Empty(analytics["recent_sales"])
    /\ Metrics[1].text = "7"

====
